---- MODULE Spec2Model ----
(***************************************************************************)
(* The Keells dashboard script (streamlit_app.py) as a state machine.      *)
(* One render pass runs the seven tab blocks top to bottom; each tab block *)
(* is one action.  The warehouse is the environment: what it holds and     *)
(* whether a statement raises is drawn afresh for every tab block.         *)
(***************************************************************************)
EXTENDS Integers, Sequences, FiniteSets, TLC

VARIABLES
    pc,       \* "body": the open tab block is about to run; "end": it ran;
              \* "done": the script ran to its end; "aborted": it was stopped
    tab,      \* index of the open tab container
    abort,    \* the uncaught exception that stopped the pass, or "none"
    ui,       \* widgets emitted into the open tab container
    calls,    \* the run_query calls of the open tab block, in order
    sent,     \* the statements the warehouse received from it
    inp,      \* the user's widget values it read
    wh,       \* the warehouse tables it queried
    rendered  \* tab blocks of this pass that ran to their end

vars == <<pc, tab, abort, ui, calls, sent, inp, wh, rendered>>

\* ----------------------------------------------------------------- bounds
MaxLines == 2
MaxTermLen == 2

\* ------------------------------------------------------ program constants
ProductLimit == 50
InventoryTop == 20
InventoryLimit == 100
PromoLimit == 50
SearchLimit == 20

\* -------------------------------------------------------------- utilities
Range(s) == {s[i] : i \in DOMAIN s}

RECURSIVE SumSeq(_)
SumSeq(s) == IF s = <<>> THEN 0 ELSE Head(s) + SumSeq(Tail(s))

RECURSIVE Flatten(_)
Flatten(ss) == IF ss = <<>> THEN <<>> ELSE Head(ss) \o Flatten(Tail(ss))

RECURSIVE SubsetsUpTo(_, _)
SubsetsUpTo(U, k) ==
    IF k = 0 THEN {{}}
    ELSE LET S == SubsetsUpTo(U, k - 1)
         IN  S \cup {s \cup {x} : s \in S, x \in U}

RECURSIVE SeqsUpTo(_, _)
SeqsUpTo(A, k) ==
    IF k = 0 THEN {<<>>}
    ELSE LET S == SeqsUpTo(A, k - 1)
         IN  S \cup {Append(s, a) : s \in S, a \in A}

\* The subsequence of s whose elements are in S (s keeps its order).
RECURSIVE Restrict(_, _)
Restrict(s, S) ==
    IF s = <<>> THEN <<>>
    ELSE IF Head(s) \in S THEN <<Head(s)>> \o Restrict(Tail(s), S)
         ELSE Restrict(Tail(s), S)

\* ------------------------------------------------------------- DataFrames
\* A frame is its ordered columns and its ordered rows (column -> value).
\* SQL NULL / pandas None, and the mark of a row a table does not hold: two
\* values that are no text (texts are sequences of one-character strings).
NULL == <<"<null>">>
Absent == <<"<absent>">>

EmptyFrame == [cols |-> <<>>, rows |-> <<>>]

Frame(cols, rows) == [cols |-> cols, rows |-> rows]

\* DataFrame.empty: any axis of length 0.
IsEmpty(df) == Len(df.cols) = 0 \/ Len(df.rows) = 0

HasColumn(df, c) == c \in Range(df.cols)

\* df[c].tolist()
ColumnList(df, c) == [i \in DOMAIN df.rows |-> df.rows[i][c]]

\* --------------------------------------------------------------- run_query
Reasons == {"connection lost", "permission denied"}

Raised(reason) == [raised |-> TRUE, reason |-> reason]
Returned(df) == [raised |-> FALSE, df |-> df]

ErrorBanner(reason) == [w |-> "error", text |-> <<"Query error: ", reason>>]

\* run_query with an except branch that shows nothing.
run_query_silent(site, sql, resp) ==
    [df    |-> IF resp.raised THEN EmptyFrame ELSE resp.df,
     ui    |-> <<>>,
     sent  |-> <<[site |-> site, sql |-> sql]>>,
     calls |-> <<[site |-> site, sql |-> sql, resp |-> resp,
                  df |-> IF resp.raised THEN EmptyFrame ELSE resp.df]>>]

\* run_query(sql) when session.sql(sql).to_pandas() answers `resp`: the frame
\* handed back, the widgets shown, the statement sent, and the call's record.
run_query(site, sql, resp) ==
    [df    |-> IF resp.raised THEN EmptyFrame ELSE resp.df,
     ui    |-> IF resp.raised THEN <<ErrorBanner(resp.reason)>> ELSE <<>>,
     sent  |-> <<[site |-> site, sql |-> sql]>>,
     calls |-> <<[site |-> site, sql |-> sql, resp |-> resp,
                  df |-> IF resp.raised THEN EmptyFrame ELSE resp.df]>>]

\* A block's outcome so far: widgets, calls, statements, uncaught exception.
Block(u, c, s, a) == [ui |-> u, calls |-> c, sent |-> s, abort |-> a]

Static(stmt) == [stmt |-> stmt, arg |-> <<>>]
Dynamic(stmt, arg) == [stmt |-> stmt, arg |-> arg]

\* What the warehouse may answer to a statement whose result is `frames`.
Responses(frames) == {Raised(r) : r \in Reasons} \cup {Returned(f) : f \in frames}

\* ------------------------------------------------------------- formatting
DigitChars == <<"0", "1", "2", "3", "4", "5", "6", "7", "8", "9">>

\* str(n) for n >= 0
RECURSIVE Str(_)
Str(n) == IF n < 10 THEN <<DigitChars[n + 1]>>
          ELSE Str(n \div 10) \o <<DigitChars[(n % 10) + 1]>>

\* the "," option of the format spec: groups of three from the right
RECURSIVE Grouped(_)
Grouped(ds) ==
    IF Len(ds) <= 3 THEN ds
    ELSE Grouped(SubSeq(ds, 1, Len(ds) - 3)) \o <<",">> \o SubSeq(ds, Len(ds) - 2, Len(ds))

\* f"{v:,.2f}" of an amount held in hundredths
Format2f(cents) ==
    Grouped(Str(cents \div 100)) \o <<".">>
        \o <<DigitChars[((cents % 100) \div 10) + 1], DigitChars[(cents % 10) + 1]>>

\* pd.to_datetime of a warehouse date
to_datetime(d) == [timestamp |-> d]

\* ---------------------------------------------------------------- Overview
Amounts == {0, 500000, 123456789}
Counts == {0, 10, 1200}
Dates == {1, 2}

TotalSalesFrames == {Frame(<<"TOTAL_SALES">>, <<[TOTAL_SALES |-> v]>>) : v \in Amounts}
TotalOrdersFrames == {Frame(<<"TOTAL_ORDERS">>, <<[TOTAL_ORDERS |-> n]>>) : n \in Counts}
ActiveCustomersFrames ==
    {Frame(<<"ACTIVE_CUSTOMERS">>, <<[ACTIVE_CUSTOMERS |-> n]>>) : n \in Counts}

\* GROUP BY full_date ORDER BY full_date: at most one row per date, ascending.
SalesOverTimeFrames ==
    {Frame(<<"FULL_DATE", "SALES">>, rows) :
        rows \in {<<>>,
                  <<[FULL_DATE |-> 1, SALES |-> 500000]>>,
                  <<[FULL_DATE |-> 1, SALES |-> 250000], [FULL_DATE |-> 2, SALES |-> 250000]>>}}

Metric(label, value) == [w |-> "metric", label |-> label, value |-> value]
Info(of, text) == [w |-> "info", of |-> of, text |-> text]
Chart(kind, of, data) == [w |-> kind, of |-> of, data |-> data]

\* lines 33-35: first row's value, or 0 for an empty frame
FirstOrZero(df, col) == IF ~IsEmpty(df) THEN df.rows[1][col] ELSE 0

\* lines 52-57
SalesOverTimeView(df) ==
    IF ~IsEmpty(df)
    THEN <<Chart("line_chart", "sales_over_time",
                 [i \in DOMAIN df.rows |->
                     <<to_datetime(df.rows[i]["FULL_DATE"]), df.rows[i]["SALES"]>>])>>
    ELSE <<Info("sales_over_time", "No sales data available.")>>

\* The Overview block with one test for the three metrics: any empty frame
\* zeroes them all.
OverviewAllOrNothing(r1, r2, r3, r4) ==
    LET q1 == run_query("total_sales", Static("total_sales"), r1)
        q2 == run_query("total_orders", Static("total_orders"), r2)
        q3 == run_query("active_customers", Static("active_customers"), r3)
        all == ~IsEmpty(q1.df) /\ ~IsEmpty(q2.df) /\ ~IsEmpty(q3.df)
        ts == IF all THEN q1.df.rows[1]["TOTAL_SALES"] ELSE 0
        to == IF all THEN q2.df.rows[1]["TOTAL_ORDERS"] ELSE 0
        ac == IF all THEN q3.df.rows[1]["ACTIVE_CUSTOMERS"] ELSE 0
        q4 == run_query("sales_over_time", Static("sales_over_time"), r4)
    IN  Block(<<[w |-> "header", text |-> "Overview Metrics"]>>
                \o q1.ui \o q2.ui \o q3.ui
                \o <<Metric("Total Sales (LKR)", Format2f(ts)),
                     Metric("Total Orders", Str(to)),
                     Metric("Active Customers", Str(ac))>>
                \o <<[w |-> "markdown", text |-> "### Sales Over Time"]>>
                \o q4.ui \o SalesOverTimeView(q4.df),
              q1.calls \o q2.calls \o q3.calls \o q4.calls,
              q1.sent \o q2.sent \o q3.sent \o q4.sent,
              "none")

\* lines 27-57
Overview(r1, r2, r3, r4) ==
    LET q1 == run_query("total_sales", Static("total_sales"), r1)
        q2 == run_query("total_orders", Static("total_orders"), r2)
        q3 == run_query("active_customers", Static("active_customers"), r3)
        ts == FirstOrZero(q1.df, "TOTAL_SALES")
        to == FirstOrZero(q2.df, "TOTAL_ORDERS")
        ac == FirstOrZero(q3.df, "ACTIVE_CUSTOMERS")
        q4 == run_query("sales_over_time", Static("sales_over_time"), r4)
    IN  Block(<<[w |-> "header", text |-> "Overview Metrics"]>>
                \o q1.ui \o q2.ui \o q3.ui
                \o <<Metric("Total Sales (LKR)", Format2f(ts)),
                     Metric("Total Orders", Str(to)),
                     Metric("Active Customers", Str(ac))>>
                \o <<[w |-> "markdown", text |-> "### Sales Over Time"]>>
                \o q4.ui \o SalesOverTimeView(q4.df),
              q1.calls \o q2.calls \o q3.calls \o q4.calls,
              q1.sent \o q2.sent \o q3.sent \o q4.sent,
              "none")

\* ------------------------------------------------- interpolated SQL text
\* Text values are sequences of characters.
Q == "'"

\* f"'{s}'"
Quoted(s) == <<Q>> \o s \o <<Q>>

\* ", ".join(items)
RECURSIVE JoinComma(_)
JoinComma(items) ==
    IF items = <<>> THEN <<>>
    ELSE IF Len(items) = 1 THEN Head(items)
         ELSE Head(items) \o <<",", " ">> \o JoinComma(Tail(items))

\* lines 68, 102, 137: the text placed inside IN ( ... )
InListText(selected) == JoinComma([i \in DOMAIN selected |-> Quoted(selected[i])])

\* The warehouse reads a string literal that opened before position i:
\* '' inside it is one quote, a single ' closes it.
RECURSIVE LexLiteral(_, _, _)
LexLiteral(t, i, v) ==
    IF i > Len(t) THEN [ok |-> FALSE]
    ELSE IF t[i] = Q
         THEN IF i + 1 <= Len(t) /\ t[i + 1] = Q
              THEN LexLiteral(t, i + 2, Append(v, Q))
              ELSE [ok |-> TRUE, val |-> v, next |-> i + 1]
         ELSE LexLiteral(t, i + 1, Append(v, t[i]))

RECURSIVE SkipSpaces(_, _)
SkipSpaces(t, i) == IF i <= Len(t) /\ t[i] = " " THEN SkipSpaces(t, i + 1) ELSE i

\* The warehouse reads the list of an IN ( ... ) from position i on:
\* literals separated by commas, or a compilation error.
RECURSIVE ParseInList(_, _, _)
ParseInList(t, i, acc) ==
    LET j == SkipSpaces(t, i)
    IN  IF j > Len(t) \/ t[j] # Q THEN [ok |-> FALSE]
        ELSE LET lit == LexLiteral(t, j + 1, <<>>)
             IN  IF ~lit.ok THEN [ok |-> FALSE]
                 ELSE LET k == SkipSpaces(t, lit.next)
                      IN  IF k > Len(t) THEN [ok |-> TRUE, vals |-> acc \cup {lit.val}]
                          ELSE IF t[k] = ","
                               THEN ParseInList(t, k + 1, acc \cup {lit.val})
                               ELSE [ok |-> FALSE]

InListValues(t) == ParseInList(t, 1, {})

CompilationError == "SQL compilation error"

\* The warehouse's answer: it may fail for its own reasons, else it runs the
\* statement, which raises when its text does not compile.
Answers(compiles, frame) ==
    {Raised(r) : r \in Reasons}
        \cup {IF compiles THEN Returned(frame) ELSE Raised(CompilationError)}

\* ------------------------------------------------------ Store Performance
StoreA == <<"A">>
StoreB == <<"B">>
StoreAB == <<"A", Q, ",", " ", Q, "B">>

\* ORDER BY store_name
StoreOrder == <<StoreA, StoreAB, StoreB>>
StoreNames == Range(StoreOrder)

\* quantities, and the one unit price (in hundredths), of the order lines
Quantities == {1, 2}
UnitPrice == 2500 * 100

\* An order line with its order's store and date (FACT_ORDER_LINES joined to
\* FACT_ORDERS and DIM_DATE), amounts in hundredths.
SaleLines == [store : StoreNames, date : Dates, quantity : Quantities, unit_price : {UnitPrice}]

RECURSIVE SumSales(_)
SumSales(ls) ==
    IF ls = {} THEN 0
    ELSE LET l == CHOOSE x \in ls : TRUE
         IN  l.quantity * l.unit_price + SumSales(ls \ {l})

DateOrder == <<1, 2>>

\* line 63: SELECT store_name FROM DIM_STORE ORDER BY store_name
StoresFrame(stores) ==
    Frame(<<"STORE_NAME">>,
          LET names == Restrict(StoreOrder, stores)
          IN  [i \in DOMAIN names |-> [STORE_NAME |-> names[i]]])

\* lines 69-78: one row per (store, date) that has lines, among the stores of
\* DIM_STORE named in the list, by date.
SalesDataFrame(tables, names) ==
    LET group(s, d) == {l \in tables.lines : l.store = s /\ l.date = d}
        row(s, d) == IF s \in tables.stores /\ s \in names /\ group(s, d) # {}
                     THEN <<[STORE_NAME |-> s, FULL_DATE |-> d, SALES |-> SumSales(group(s, d))]>>
                     ELSE <<>>
        ofDate(d) == Flatten([i \in DOMAIN StoreOrder |-> row(StoreOrder[i], d)])
    IN  Frame(<<"STORE_NAME", "FULL_DATE", "SALES">>,
              Flatten([i \in DOMAIN DateOrder |-> ofDate(DateOrder[i])]))

SalesDataAnswers(tables, text) ==
    LET list == InListValues(text)
    IN  Answers(list.ok, IF list.ok THEN SalesDataFrame(tables, list.vals) ELSE EmptyFrame)

\* lines 80-81: pivot(index=FULL_DATE, columns=STORE_NAME, values=SALES).fillna(0)
Pivot(df) ==
    LET names == Restrict(StoreOrder, {df.rows[i]["STORE_NAME"] : i \in DOMAIN df.rows})
        dates == Restrict(DateOrder, {df.rows[i]["FULL_DATE"] : i \in DOMAIN df.rows})
        cell(s, d) == LET hits == {i \in DOMAIN df.rows :
                                      df.rows[i]["STORE_NAME"] = s /\ df.rows[i]["FULL_DATE"] = d}
                      IN  IF hits = {} THEN 0 ELSE df.rows[CHOOSE i \in hits : TRUE]["SALES"]
    IN  [columns |-> names,
         index   |-> [i \in DOMAIN dates |-> to_datetime(dates[i])],
         values  |-> [s \in Range(names) |-> [i \in DOMAIN dates |-> cell(s, dates[i])]]]

\* line 85: groupby("STORE_NAME")["SALES"].sum()
TotalByStore(df) ==
    LET names == Restrict(StoreOrder, {df.rows[i]["STORE_NAME"] : i \in DOMAIN df.rows})
    IN  [k \in DOMAIN names |->
            [STORE_NAME |-> names[k],
             SALES |-> SumSeq([i \in DOMAIN df.rows |->
                          IF df.rows[i]["STORE_NAME"] = names[k] THEN df.rows[i]["SALES"] ELSE 0])]]

\* lines 79-89
SalesDataView(df) ==
    IF ~IsEmpty(df)
    THEN <<Chart("line_chart", "sales_data", Pivot(df)),
           [w |-> "markdown", text |-> "#### Total Sales Distribution by Store"],
           Chart("pyplot", "sales_data", TotalByStore(df))>>
    ELSE <<Info("sales_data", "No sales data found for selected stores.")>>

\* lines 61-65, up to the multiselect
StoreLookup(r) ==
    LET q == run_query("stores_df", Static("stores_df"), r)
    IN  [q |-> q, keyError |-> ~HasColumn(q.df, "STORE_NAME"),
         options |-> IF HasColumn(q.df, "STORE_NAME") THEN ColumnList(q.df, "STORE_NAME") ELSE <<>>]

\* lines 60-91; `selected` is what the multiselect hands back, `r2` answers
\* the aggregation when it is sent
StorePerformance(r1, selected, r2) ==
    LET look == StoreLookup(r1)
        head == <<[w |-> "header", text |-> "Store Sales Performance"]>> \o look.q.ui
        q2 == run_query("sales_data", Dynamic("sales_data", InListText(selected)), r2)
    IN  IF look.keyError
        THEN Block(head, look.q.calls, look.q.sent, "KeyError")
        ELSE IF selected # <<>>
        THEN Block(head \o <<[w |-> "multiselect", options |-> look.options]>>
                        \o q2.ui \o SalesDataView(q2.df),
                   look.q.calls \o q2.calls, look.q.sent \o q2.sent, "none")
        ELSE Block(head \o <<[w |-> "multiselect", options |-> look.options]>>
                        \o <<Info("selected_stores", "Please select at least one store.")>>,
                   look.q.calls, look.q.sent, "none")

\* What a multiselect can hand back: any part of its options, in their order.
Selections(options) == {Restrict(options, S) : S \in SUBSET Range(options)}

StoreTables == [stores : SUBSET StoreNames, lines : SubsetsUpTo(SaleLines, MaxLines)]

\* ----------------------------------------------------------- Product Sales
Dairy == <<"D">>
Bakery == <<"K">>
CategoryOrder == <<Bakery, Dairy>>
Categories == Range(CategoryOrder)

ProductOrder == <<"bread", "milk">>
ProductNames == Range(ProductOrder)

\* DIM_PRODUCT: each product's category (NULL allowed), or Absent for a
\* product the table does not hold.  FACT_ORDER_LINES: product, quantity, price.
ProductTables ==
    [products : [ProductNames -> Categories \cup {NULL, Absent}],
     lines : SubsetsUpTo([product : ProductNames, quantity : Quantities,
                          unit_price : {UnitPrice}], MaxLines)]

\* line 97: SELECT DISTINCT category FROM DIM_PRODUCT ORDER BY category
\* (NULL sorts last and is one of the distinct values)
CategoriesFrame(tables) ==
    LET held == {tables.products[p] : p \in ProductNames} \ {Absent}
        cats == Restrict(CategoryOrder, held) \o (IF NULL \in held THEN <<NULL>> ELSE <<>>)
    IN  Frame(<<"CATEGORY">>, [i \in DOMAIN cats |-> [CATEGORY |-> cats[i]]])

\* Series.dropna()
DropNa(list) == Restrict(list, Range(list) \ {NULL})

RECURSIVE SumQuantity(_)
SumQuantity(ls) ==
    IF ls = {} THEN 0
    ELSE LET l == CHOOSE x \in ls : TRUE IN l.quantity + SumQuantity(ls \ {l})

\* ORDER BY revenue DESC (ties in the order given)
RECURSIVE ByRevenueDesc(_)
ByRevenueDesc(rows) ==
    IF rows = <<>> THEN <<>>
    ELSE LET top == CHOOSE i \in DOMAIN rows :
                        /\ \A j \in DOMAIN rows : rows[j]["REVENUE"] <= rows[i]["REVENUE"]
                        /\ \A j \in 1..(i - 1) : rows[j]["REVENUE"] < rows[i]["REVENUE"]
         IN  <<rows[top]>> \o ByRevenueDesc(SubSeq(rows, 1, top - 1)
                                              \o SubSeq(rows, top + 1, Len(rows)))

\* LIMIT n / head(n)
Limit(rows, n) == SubSeq(rows, 1, IF Len(rows) < n THEN Len(rows) ELSE n)

\* lines 103-111: one row per product held in DIM_PRODUCT that has lines and
\* whose category is named in the list (a NULL category equals no literal)
ProdSalesFrame(tables, names) ==
    LET group(p) == {l \in tables.lines : l.product = p}
        row(p) == IF tables.products[p] \in names /\ group(p) # {}
                  THEN <<[PRODUCT_NAME |-> p, CATEGORY |-> tables.products[p],
                          QUANTITY_SOLD |-> SumQuantity(group(p)),
                          REVENUE |-> SumSales(group(p))]>>
                  ELSE <<>>
    IN  Frame(<<"PRODUCT_NAME", "CATEGORY", "QUANTITY_SOLD", "REVENUE">>,
              Limit(ByRevenueDesc(Flatten([i \in DOMAIN ProductOrder |-> row(ProductOrder[i])])),
                    ProductLimit))

ProdSalesAnswers(tables, text) ==
    LET list == InListValues(text)
    IN  Answers(list.ok, IF list.ok THEN ProdSalesFrame(tables, list.vals) ELSE EmptyFrame)

\* line 120: groupby("CATEGORY")["REVENUE"].sum()
RevenueByCategory(df) ==
    LET cats == Restrict(CategoryOrder, {df.rows[i]["CATEGORY"] : i \in DOMAIN df.rows})
    IN  [k \in DOMAIN cats |->
            [CATEGORY |-> cats[k],
             REVENUE |-> SumSeq([i \in DOMAIN df.rows |->
                            IF df.rows[i]["CATEGORY"] = cats[k] THEN df.rows[i]["REVENUE"] ELSE 0])]]

\* lines 112-124
ProdSalesView(df) ==
    IF ~IsEmpty(df)
    THEN <<Chart("dataframe", "prod_sales", df.rows),
           [w |-> "markdown", text |-> "### Top Products by Revenue"],
           Chart("bar_chart", "prod_sales",
                 [i \in DOMAIN df.rows |-> <<df.rows[i]["PRODUCT_NAME"], df.rows[i]["REVENUE"]>>]),
           [w |-> "markdown", text |-> "### Revenue Distribution by Category"],
           Chart("pyplot", "prod_sales", RevenueByCategory(df))>>
    ELSE <<Info("prod_sales", "No sales data for selected categories.")>>

\* lines 95-99, up to the multiselect
CategoryLookup(r) ==
    LET q == run_query("categories_df", Static("categories_df"), r)
    IN  [q |-> q, keyError |-> ~HasColumn(q.df, "CATEGORY"),
         options |-> IF HasColumn(q.df, "CATEGORY")
                     THEN DropNa(ColumnList(q.df, "CATEGORY")) ELSE <<>>]

\* lines 94-126
ProductSales(r1, selected, r2) ==
    LET look == CategoryLookup(r1)
        head == <<[w |-> "header", text |-> "Product Sales Analysis"]>> \o look.q.ui
        q2 == run_query("prod_sales", Dynamic("prod_sales", InListText(selected)), r2)
    IN  IF look.keyError
        THEN Block(head, look.q.calls, look.q.sent, "KeyError")
        ELSE IF selected # <<>>
        THEN Block(head \o <<[w |-> "multiselect", options |-> look.options]>>
                        \o q2.ui \o ProdSalesView(q2.df),
                   look.q.calls \o q2.calls, look.q.sent \o q2.sent, "none")
        ELSE Block(head \o <<[w |-> "multiselect", options |-> look.options]>>
                        \o <<Info("selected_categories", "Please select at least one category.")>>,
                   look.q.calls, look.q.sent, "none")

\* ------------------------------------------------------- Customer Insights
Gold == <<"G">>
Silver == <<"S">>
TierOrder == <<Gold, Silver>>
Tiers == Range(TierOrder)

CustomerIds == {1, 2}
RegionOrder == <<"South", "West">>
RegionOf == [c \in CustomerIds |-> IF c = 1 THEN "West" ELSE "South"]

\* DIM_CUSTOMER: the customers held; FACT_ORDERS: customer, tier (NULL
\* allowed), total value.
CustomerTables ==
    [customers : SUBSET CustomerIds,
     orders : SubsetsUpTo([customer_id : CustomerIds, loyalty_tier : Tiers \cup {NULL},
                           total_value : {UnitPrice, 2 * UnitPrice}], MaxLines)]

\* line 132: SELECT DISTINCT loyalty_tier ... WHERE loyalty_tier IS NOT NULL ORDER BY loyalty_tier
TiersFrame(tables) ==
    LET tiers == Restrict(TierOrder, {o.loyalty_tier : o \in tables.orders})
    IN  Frame(<<"LOYALTY_TIER">>, [i \in DOMAIN tiers |-> [LOYALTY_TIER |-> tiers[i]]])

RECURSIVE SumValue(_)
SumValue(os) ==
    IF os = {} THEN 0
    ELSE LET o == CHOOSE x \in os : TRUE IN o.total_value + SumValue(os \ {o})

\* ORDER BY customer_count DESC (ties in the order given)
RECURSIVE ByCountDesc(_)
ByCountDesc(rows) ==
    IF rows = <<>> THEN <<>>
    ELSE LET top == CHOOSE i \in DOMAIN rows :
                        /\ \A j \in DOMAIN rows : rows[j]["CUSTOMER_COUNT"] <= rows[i]["CUSTOMER_COUNT"]
                        /\ \A j \in 1..(i - 1) : rows[j]["CUSTOMER_COUNT"] < rows[i]["CUSTOMER_COUNT"]
         IN  <<rows[top]>> \o ByCountDesc(SubSeq(rows, 1, top - 1)
                                            \o SubSeq(rows, top + 1, Len(rows)))

\* lines 138-145: per region, the customers of DIM_CUSTOMER with an order of a
\* listed tier, and the mean order value (kept as sum over count)
CustDataFrame(tables, names) ==
    LET group(g) == {o \in tables.orders : /\ o.customer_id \in tables.customers
                                           /\ RegionOf[o.customer_id] = g
                                           /\ o.loyalty_tier \in names}
        row(g) == IF group(g) # {}
                  THEN <<[REGION |-> g,
                          CUSTOMER_COUNT |-> Cardinality({o.customer_id : o \in group(g)}),
                          AVG_SPENT |-> [sum |-> SumValue(group(g)),
                                         count |-> Cardinality(group(g))]]>>
                  ELSE <<>>
    IN  Frame(<<"REGION", "CUSTOMER_COUNT", "AVG_SPENT">>,
              ByCountDesc(Flatten([i \in DOMAIN RegionOrder |-> row(RegionOrder[i])])))

\* lines 154-159: per listed tier, the distinct customers of FACT_ORDERS
LoyaltyDistFrame(tables, names) ==
    LET group(t) == {o \in tables.orders : o.loyalty_tier = t}
        row(t) == IF t \in names /\ group(t) # {}
                  THEN <<[LOYALTY_TIER |-> t,
                          CUSTOMER_COUNT |-> Cardinality({o.customer_id : o \in group(t)})]>>
                  ELSE <<>>
    IN  Frame(<<"LOYALTY_TIER", "CUSTOMER_COUNT">>,
              Flatten([i \in DOMAIN TierOrder |-> row(TierOrder[i])]))

CustDataAnswers(tables, text) ==
    LET list == InListValues(text)
    IN  Answers(list.ok, IF list.ok THEN CustDataFrame(tables, list.vals) ELSE EmptyFrame)

LoyaltyDistAnswers(tables, text) ==
    LET list == InListValues(text)
    IN  Answers(list.ok, IF list.ok THEN LoyaltyDistFrame(tables, list.vals) ELSE EmptyFrame)

\* lines 160-162: the pie chart, and nothing when the frame is empty
LoyaltyDistView(df) ==
    IF ~IsEmpty(df)
    THEN <<[w |-> "markdown", text |-> "### Loyalty Tier Distribution"],
           Chart("pyplot", "loyalty_dist", df.rows)>>
    ELSE <<>>

\* lines 130-134, up to the multiselect
TierLookup(r) ==
    LET q == run_query("tiers_df", Static("tiers_df"), r)
    IN  [q |-> q, keyError |-> ~HasColumn(q.df, "LOYALTY_TIER"),
         options |-> IF HasColumn(q.df, "LOYALTY_TIER")
                     THEN ColumnList(q.df, "LOYALTY_TIER") ELSE <<>>]

\* lines 129-166; `r3` answers the tier distribution when it is sent
CustomerInsights(r1, selected, r2, r3) ==
    LET look == TierLookup(r1)
        head == <<[w |-> "header", text |-> "Customer Insights"]>> \o look.q.ui
        q2 == run_query("cust_data", Dynamic("cust_data", InListText(selected)), r2)
        q3 == run_query("loyalty_dist", Dynamic("loyalty_dist", InListText(selected)), r3)
        select == <<[w |-> "multiselect", options |-> look.options]>>
    IN  IF look.keyError
        THEN Block(head, look.q.calls, look.q.sent, "KeyError")
        ELSE IF selected # <<>>
        THEN IF ~IsEmpty(q2.df)
             THEN Block(head \o select \o q2.ui
                             \o <<Chart("dataframe", "cust_data", q2.df.rows),
                                  [w |-> "markdown", text |-> "### Customer Count by Region"],
                                  Chart("bar_chart", "cust_data",
                                        [i \in DOMAIN q2.df.rows |->
                                            <<q2.df.rows[i]["REGION"],
                                              q2.df.rows[i]["CUSTOMER_COUNT"]>>])>>
                             \o q3.ui \o LoyaltyDistView(q3.df),
                        look.q.calls \o q2.calls \o q3.calls,
                        look.q.sent \o q2.sent \o q3.sent, "none")
             ELSE Block(head \o select \o q2.ui
                             \o <<Info("cust_data", "No customer data found.")>>,
                        look.q.calls \o q2.calls, look.q.sent \o q2.sent, "none")
        ELSE Block(head \o select
                        \o <<Info("selected_tiers", "Please select at least one loyalty tier.")>>,
                   look.q.calls, look.q.sent, "none")

\* ---------------------------------------------------------------- Inventory
\* `if x is not None:` in place of `if x:`
NotNone(x) == x # NULL

\* if x: None and the empty text are false
Truthy(x) == x # NULL /\ x # <<>>

\* The warehouse reads `= '<text>'`: one literal and nothing after it.
OneLiteral(t) ==
    IF t = <<>> \/ t[1] # Q THEN [ok |-> FALSE]
    ELSE LET lit == LexLiteral(t, 2, <<>>)
         IN  IF lit.ok /\ lit.next = Len(t) + 1 THEN [ok |-> TRUE, val |-> lit.val]
             ELSE [ok |-> FALSE]

\* DIM_STORE and FACT_INVENTORY joined to DIM_SKU and DIM_PRODUCT
InventoryTables ==
    [stores : SUBSET StoreNames,
     stock : SubsetsUpTo([store : StoreNames, product_name : ProductNames,
                          stock_level : {0, 5}], MaxLines)]

\* ORDER BY fi.stock_level ASC (ties in the order given)
RECURSIVE ByStockAsc(_)
ByStockAsc(rows) ==
    IF rows = <<>> THEN <<>>
    ELSE LET low == CHOOSE i \in DOMAIN rows :
                        /\ \A j \in DOMAIN rows : rows[i]["STOCK_LEVEL"] <= rows[j]["STOCK_LEVEL"]
                        /\ \A j \in 1..(i - 1) : rows[i]["STOCK_LEVEL"] < rows[j]["STOCK_LEVEL"]
         IN  <<rows[low]>> \o ByStockAsc(SubSeq(rows, 1, low - 1)
                                           \o SubSeq(rows, low + 1, Len(rows)))

\* lines 177-186
InvDataFrame(tables, name) ==
    LET row(p, lv) == IF name \in tables.stores
                         /\ [store |-> name, product_name |-> p, stock_level |-> lv] \in tables.stock
                      THEN <<[PRODUCT_NAME |-> p, STOCK_LEVEL |-> lv,
                              ON_ORDER_QTY |-> 0, SAFETY_STOCK |-> 1]>>
                      ELSE <<>>
        ofProduct(p) == row(p, 0) \o row(p, 5)
    IN  Frame(<<"PRODUCT_NAME", "STOCK_LEVEL", "ON_ORDER_QTY", "SAFETY_STOCK">>,
              Limit(ByStockAsc(Flatten([i \in DOMAIN ProductOrder |-> ofProduct(ProductOrder[i])])),
                    InventoryLimit))

InvDataAnswers(tables, text) ==
    LET lit == OneLiteral(text)
    IN  Answers(lit.ok, IF lit.ok THEN InvDataFrame(tables, lit.val) ELSE EmptyFrame)

\* lines 187-195
InvDataView(df, selected) ==
    IF ~IsEmpty(df)
    THEN <<Chart("dataframe", "inv_data", df.rows),
           [w |-> "markdown", text |-> "### Stock Levels for Top 20 Products"],
           Chart("bar_chart", "inv_data",
                 LET top == Limit(df.rows, InventoryTop)
                 IN  [i \in DOMAIN top |-> <<top[i]["PRODUCT_NAME"], top[i]["STOCK_LEVEL"]>>])>>
    ELSE <<Info("inv_data", <<"No inventory data for ", selected>>)>>

\* lines 170-174, up to the selectbox
InventoryLookup(r) ==
    LET q == run_query("inv_stores_df", Static("stores_df"), r)
    IN  [q |-> q, keyError |-> ~HasColumn(q.df, "STORE_NAME"),
         options |-> IF HasColumn(q.df, "STORE_NAME") THEN ColumnList(q.df, "STORE_NAME") ELSE <<>>]

\* What a selectbox can hand back: one of its options, None when it has none.
Choices(options) == IF options = <<>> THEN {NULL} ELSE Range(options)

\* lines 169-195: no branch for a falsy selection
Inventory(r1, selected, r2) ==
    LET look == InventoryLookup(r1)
        head == <<[w |-> "header", text |-> "Inventory Status"]>> \o look.q.ui
        q2 == run_query("inv_data", Dynamic("inv_data", Quoted(selected)), r2)
        select == <<[w |-> "selectbox", options |-> look.options]>>
    IN  IF look.keyError
        THEN Block(head, look.q.calls, look.q.sent, "KeyError")
        ELSE IF Truthy(selected)
        THEN Block(head \o select \o q2.ui \o InvDataView(q2.df, selected),
                   look.q.calls \o q2.calls, look.q.sent \o q2.sent, "none")
        ELSE Block(head \o select, look.q.calls, look.q.sent, "none")

\* --------------------------------------------------------------- Promotions
\* FACT_PROMOTION joined to DIM_SKU and DIM_PRODUCT
PromoRows == [promo_id : {1, 2}, promo_type : {"BOGO", "PCT"}, discount_rate : {10, 25}]

PromoTables == [promos : SubsetsUpTo(PromoRows, MaxLines)]

PromoOrder == <<[promo_id |-> 2, promo_type |-> "BOGO", discount_rate |-> 10],
                [promo_id |-> 2, promo_type |-> "BOGO", discount_rate |-> 25],
                [promo_id |-> 2, promo_type |-> "PCT", discount_rate |-> 10],
                [promo_id |-> 2, promo_type |-> "PCT", discount_rate |-> 25],
                [promo_id |-> 1, promo_type |-> "BOGO", discount_rate |-> 10],
                [promo_id |-> 1, promo_type |-> "BOGO", discount_rate |-> 25],
                [promo_id |-> 1, promo_type |-> "PCT", discount_rate |-> 10],
                [promo_id |-> 1, promo_type |-> "PCT", discount_rate |-> 25]>>

\* lines 201-208: ORDER BY start_date_id DESC (a promotion's start date is its id)
PromoDataFrame(tables) ==
    LET held == Restrict(PromoOrder, tables.promos)
    IN  Frame(<<"PROMO_ID", "PRODUCT_NAME", "PROMO_TYPE", "DISCOUNT_RATE", "START_DATE_ID">>,
              Limit([i \in DOMAIN held |->
                        [PROMO_ID |-> held[i].promo_id, PRODUCT_NAME |-> "milk",
                         PROMO_TYPE |-> held[i].promo_type,
                         DISCOUNT_RATE |-> held[i].discount_rate,
                         START_DATE_ID |-> held[i].promo_id]],
                    PromoLimit))

\* line 213: groupby("PROMO_TYPE")["DISCOUNT_RATE"].mean(), as sum over count
MeanDiscountByType(df) ==
    LET types == Restrict(<<"BOGO", "PCT">>, {df.rows[i]["PROMO_TYPE"] : i \in DOMAIN df.rows})
        of(t) == {i \in DOMAIN df.rows : df.rows[i]["PROMO_TYPE"] = t}
    IN  [k \in DOMAIN types |->
            [PROMO_TYPE |-> types[k],
             DISCOUNT_RATE |->
                [sum |-> SumSeq([i \in DOMAIN df.rows |->
                            IF i \in of(types[k]) THEN df.rows[i]["DISCOUNT_RATE"] ELSE 0]),
                 count |-> Cardinality(of(types[k]))]]]

\* lines 198-217
Promotions(r) ==
    LET q == run_query("promo_data", Static("promo_data"), r)
    IN  Block(<<[w |-> "header", text |-> "Promotions Overview"]>> \o q.ui
                \o (IF ~IsEmpty(q.df)
                    THEN <<Chart("dataframe", "promo_data", q.df.rows),
                           [w |-> "markdown",
                            text |-> "### Average Discount Rate by Promotion Type"],
                           Chart("bar_chart", "promo_data", MeanDiscountByType(q.df))>>
                    ELSE <<Info("promo_data", "No promotion data available.")>>),
              q.calls, q.sent, "none")

\* ------------------------------------------------------------------ Search
\* The characters a search term is typed from: two letters, the quote, and
\* three characters str.isdigit() accepts: ASCII 7, ARABIC-INDIC DIGIT THREE
\* (a decimal digit) and SUPERSCRIPT TWO (a digit that is no decimal).
Arabic3 == "U+0663"
Superscript2 == "U+00B2"
TermChars == {"a", "B", "7", Arabic3, Superscript2, Q}

SearchTerms == SeqsUpTo(TermChars, MaxTermLen)

\* str.lower()
lower(t) == [i \in DOMAIN t |-> IF t[i] = "B" THEN "b" ELSE t[i]]

\* str.isdigit(): at least one character, all of them digits
isdigit(t) == t # <<>> /\ \A i \in DOMAIN t : t[i] \in {"7", Arabic3, Superscript2}

\* int(t): decimal digits of any script, else ValueError
DecimalValue(c) == IF c = "7" THEN 7 ELSE 3

RECURSIVE DecimalNumber(_)
DecimalNumber(t) ==
    IF t = <<>> THEN 0
    ELSE 10 * DecimalNumber(SubSeq(t, 1, Len(t) - 1)) + DecimalValue(t[Len(t)])

int(t) ==
    IF t # <<>> /\ \A i \in DOMAIN t : t[i] \in {"7", Arabic3}
    THEN [ok |-> TRUE, val |-> DecimalNumber(t)]
    ELSE [ok |-> FALSE]

SearchProducts == {<<"a", "b">>, <<"7">>}
SearchProductOrder == <<<<"7">>, <<"a", "b">>>>
OrderIds == {3, 7, 77}
OrderIdOrder == <<3, 7, 77>>

SearchTables == [products : SUBSET SearchProducts, orders : SUBSET OrderIds]

\* x occurs in s
Contains(s, x) ==
    \E i \in 1..(Len(s) - Len(x) + 1) : SubSeq(s, i, i + Len(x) - 1) = x

\* lines 226-231: LOWER(product_name) LIKE '%<text>%'
ProductResultsFrame(tables, pattern) ==
    LET middle == SubSeq(pattern, 2, Len(pattern) - 1)
        held == Restrict(SearchProductOrder,
                         {n \in tables.products : Contains(lower(n), middle)})
    IN  Frame(<<"PRODUCT_ID", "PRODUCT_NAME", "CATEGORY">>,
              Limit([i \in DOMAIN held |->
                        [PRODUCT_ID |-> Len(held[i]), PRODUCT_NAME |-> held[i],
                         CATEGORY |-> Dairy]],
                    SearchLimit))

ProductResultsAnswers(tables, text) ==
    LET lit == OneLiteral(text)
    IN  Answers(lit.ok, IF lit.ok THEN ProductResultsFrame(tables, lit.val) ELSE EmptyFrame)

\* The warehouse reads an integer literal.
RECURSIVE NumberOf(_)
NumberOf(ds) ==
    IF ds = <<>> THEN 0
    ELSE 10 * NumberOf(SubSeq(ds, 1, Len(ds) - 1))
            + ((CHOOSE k \in DOMAIN DigitChars : DigitChars[k] = ds[Len(ds)]) - 1)

\* lines 239-243: WHERE order_id = <number>
OrderResultsFrame(tables, text) ==
    LET held == Restrict(OrderIdOrder, {o \in tables.orders : o = NumberOf(text)})
    IN  Frame(<<"ORDER_ID", "ORDER_DATE_ID", "TOTAL_VALUE">>,
              [i \in DOMAIN held |->
                  [ORDER_ID |-> held[i], ORDER_DATE_ID |-> 1, TOTAL_VALUE |-> UnitPrice]])

OrderResultsAnswers(tables, text) == Answers(TRUE, OrderResultsFrame(tables, text))

\* lines 226-236
ProductMatch(term, r) ==
    LET q == run_query("product_results",
                       Dynamic("product_results", Quoted(<<"%">> \o lower(term) \o <<"%">>)), r)
    IN  Block(q.ui \o <<[w |-> "subheader", text |-> "Matching Products"]>>
                \o (IF ~IsEmpty(q.df)
                    THEN <<Chart("dataframe", "product_results", q.df.rows)>>
                    ELSE <<Info("product_results", "No matching products found.")>>),
              q.calls, q.sent, "none")

\* lines 238-248
OrderLookup(term, r) ==
    IF isdigit(term)
    THEN IF ~int(term).ok
         THEN Block(<<>>, <<>>, <<>>, "ValueError")
         ELSE LET q == run_query("order_results",
                                 Dynamic("order_results", Str(int(term).val)), r)
              IN  Block(q.ui \o <<[w |-> "subheader", text |-> "Order Details"]>>
                          \o (IF ~IsEmpty(q.df)
                              THEN <<Chart("dataframe", "order_results", q.df.rows)>>
                              ELSE <<Info("order_results", "No order found with that ID.")>>),
                        q.calls, q.sent, "none")
    ELSE Block(<<>>, <<>>, <<>>, "none")

\* lines 220-248
Search(term, r1, r2) ==
    LET head == <<[w |-> "header", text |-> "Search Products & Orders"],
                  [w |-> "text_input", value |-> term]>>
        p == ProductMatch(term, r1)
        o == OrderLookup(term, r2)
    IN  IF Truthy(term)
        THEN Block(head \o p.ui \o o.ui, p.calls \o o.calls, p.sent \o o.sent, o.abort)
        ELSE Block(head, <<>>, <<>>, "none")

\* ------------------------------------------------------------ the passes
NoInput == [widget |-> "none"]
NoTables == [tables |-> "opaque"]

AnyRaised(cs) == \E i \in DOMAIN cs : cs[i].resp.raised

\* line 16: the tab containers, by index
TabNames == <<"Overview", "Store Performance", "Product Sales", "Customer Insights",
              "Inventory", "Promotions", "Search">>
LastTab == Len(TabNames) - 1

\* A tab block ran: its outcome is what its container shows; an uncaught
\* exception stops the script.
Commit(b, i, w) ==
    /\ pc' = IF b.abort # "none" THEN "aborted" ELSE IF tab = LastTab THEN "done" ELSE "end"
    /\ abort' = b.abort
    /\ ui' = b.ui
    /\ calls' = b.calls
    /\ sent' = b.sent
    /\ inp' = i
    /\ wh' = w
    /\ rendered' = IF b.abort # "none" THEN rendered ELSE rendered \cup {tab}
    /\ UNCHANGED tab

OverviewTab ==
    /\ pc = "body" /\ tab = 0
    /\ \E r1 \in Responses(TotalSalesFrames), r2 \in Responses(TotalOrdersFrames),
          r3 \in Responses(ActiveCustomersFrames), r4 \in Responses(SalesOverTimeFrames) :
          Commit(Overview(r1, r2, r3, r4), NoInput, NoTables)

StorePerformanceTab ==
    /\ pc = "body" /\ tab = 1
    /\ \E tables \in StoreTables :
       \E r1 \in Responses({StoresFrame(tables.stores)}) :
       \E selected \in Selections(StoreLookup(r1).options) :
       \E r2 \in SalesDataAnswers(tables, InListText(selected)) :
          Commit(StorePerformance(r1, selected, r2), [selected |-> selected], tables)

ProductSalesTab ==
    /\ pc = "body" /\ tab = 2
    /\ \E tables \in ProductTables :
       \E r1 \in Responses({CategoriesFrame(tables)}) :
       \E selected \in Selections(CategoryLookup(r1).options) :
       \E r2 \in ProdSalesAnswers(tables, InListText(selected)) :
          Commit(ProductSales(r1, selected, r2), [selected |-> selected], tables)

CustomerInsightsTab ==
    /\ pc = "body" /\ tab = 3
    /\ \E tables \in CustomerTables :
       \E r1 \in Responses({TiersFrame(tables)}) :
       \E selected \in Selections(TierLookup(r1).options) :
       \E r2 \in CustDataAnswers(tables, InListText(selected)) :
       \E r3 \in LoyaltyDistAnswers(tables, InListText(selected)) :
          Commit(CustomerInsights(r1, selected, r2, r3), [selected |-> selected], tables)

InventoryTab ==
    /\ pc = "body" /\ tab = 4
    /\ \E tables \in InventoryTables :
       \E r1 \in Responses({StoresFrame(tables.stores)}) :
       \E selected \in Choices(InventoryLookup(r1).options) :
       \E r2 \in InvDataAnswers(tables, Quoted(selected)) :
          Commit(Inventory(r1, selected, r2), [selected |-> selected], tables)

PromotionsTab ==
    /\ pc = "body" /\ tab = 5
    /\ \E tables \in PromoTables :
       \E r \in Responses({PromoDataFrame(tables)}) :
          Commit(Promotions(r), NoInput, tables)

SearchTab ==
    /\ pc = "body" /\ tab = 6
    /\ \E tables \in SearchTables, term \in SearchTerms :
       \E r1 \in ProductResultsAnswers(tables, Quoted(<<"%">> \o lower(term) \o <<"%">>)) :
       \E r2 \in IF int(term).ok THEN OrderResultsAnswers(tables, Str(int(term).val))
                  ELSE {Raised(CompilationError)} :
          Commit(Search(term, r1, r2), [term |-> term], tables)

\* `with tabs[i + 1]:` the next container opens, empty.
NextTab ==
    /\ pc = "end"
    /\ pc' = "body"
    /\ tab' = tab + 1
    /\ ui' = <<>>
    /\ calls' = <<>>
    /\ sent' = <<>>
    /\ inp' = NoInput
    /\ wh' = NoTables
    /\ UNCHANGED <<abort, rendered>>

\* Any interaction re-runs the script from the top with fresh locals.
Rerun ==
    /\ pc \in {"done", "aborted"}
    /\ pc' = "body"
    /\ tab' = 0
    /\ abort' = "none"
    /\ ui' = <<>>
    /\ calls' = <<>>
    /\ sent' = <<>>
    /\ inp' = NoInput
    /\ wh' = NoTables
    /\ rendered' = {}

Init ==
    /\ pc = "body"
    /\ tab = 0
    /\ abort = "none"
    /\ ui = <<>>
    /\ calls = <<>>
    /\ sent = <<>>
    /\ inp = NoInput
    /\ wh = NoTables
    /\ rendered = {}

Next ==
    \/ OverviewTab
    \/ StorePerformanceTab
    \/ ProductSalesTab
    \/ CustomerInsightsTab
    \/ InventoryTab
    \/ PromotionsTab
    \/ SearchTab
    \/ NextTab
    \/ Rerun

Spec == Init /\ [][Next]_vars

\* ------------------------------------------------------------- the claims
SitesOf(s) == [i \in DOMAIN s |-> s[i].site]

\* The open tab block has run (to its end, or to an uncaught exception).
Ran(t) == tab = t /\ pc \in {"end", "done", "aborted"}
Finished(t) == tab = t /\ pc \in {"end", "done"}

Widgets(kind) == {i \in DOMAIN ui : ui[i].w = kind}
Placeholders(site) == {i \in Widgets("info") : ui[i].of = site}
Presentations(site) ==
    {i \in DOMAIN ui : ui[i].w \in {"line_chart", "bar_chart", "pyplot", "dataframe"}
                       /\ ui[i].of = site}
Banners == Restrict(ui, {ui[i] : i \in Widgets("error")})
RaisedCalls == Restrict(calls, {calls[i] : i \in {j \in DOMAIN calls : calls[j].resp.raised}})

\* C1: whenever the warehouse raises inside run_query, the call hands back the
\* empty frame and shows one error banner carrying the reason; whenever it
\* answers, the call hands back that answer and shows no banner.  So the
\* banners of a tab block are, in order, the reasons of its raised calls.
C1_RunQueryMasksFailure ==
    /\ \A i \in DOMAIN calls :
          IF calls[i].resp.raised
          THEN calls[i].df = [cols |-> <<>>, rows |-> <<>>]
          ELSE calls[i].df = calls[i].resp.df
    /\ Len(Banners) = Len(RaisedCalls)
    /\ \A i \in DOMAIN Banners :
          Banners[i].text = <<"Query error: ", RaisedCalls[i].resp.reason>>

C1_Witness ==
    /\ Finished(0)
    /\ calls[1].resp.raised /\ ~calls[2].resp.raised
    /\ Len(Banners) = 1

\* C2: a query failure never stops the pass: no pass in which a statement
\* raised is aborted, and a pass that ends has rendered all seven tabs.
C2_QueryFailureNonFatal ==
    /\ AnyRaised(calls) => pc # "aborted"
    /\ pc = "done" => rendered = 0..6

\* C3: in a tab block that ran to its end, every frame that feeds a chart or
\* a table gets a placeholder and no chart or table when it is empty, and a
\* chart or table and no placeholder when it has rows.
ResultSites == {"sales_over_time", "sales_data", "prod_sales", "cust_data", "loyalty_dist",
                "inv_data", "promo_data", "product_results", "order_results"}

C3_EmptyResultPlaceholder ==
    pc \in {"end", "done"} =>
        \A i \in DOMAIN calls :
            calls[i].site \in ResultSites =>
                IF IsEmpty(calls[i].df)
                THEN Placeholders(calls[i].site) # {} /\ Presentations(calls[i].site) = {}
                ELSE Placeholders(calls[i].site) = {} /\ Presentations(calls[i].site) # {}

\* C4: the Search block sends the product match alone, shows no "Order
\* Details" and runs to its end for a non-empty term that is not all digits,
\* and sends nothing for the empty term.
AllDigits(t) == t # <<>> /\ \A i \in DOMAIN t : t[i] \in {"7", "U+0663", "U+00B2"}

C4_NonNumericSkipsOrderLookup ==
    Ran(6) =>
        /\ (inp.term # <<>> /\ ~AllDigits(inp.term)) =>
              /\ SitesOf(sent) = <<"product_results">>
              /\ \A i \in Widgets("subheader") : ui[i].text # "Order Details"
              /\ pc = "done"
        /\ inp.term = <<>> => sent = <<>>

C4_Witness ==
    /\ Ran(6)
    /\ inp.term = <<"a", "7">>
    /\ SitesOf(sent) = <<"product_results">>

\* C5: for every term that passes the all-digits test the Search block runs
\* to its end, having sent the order lookup with the term's integer value.
C5_NumericRunsOrderLookup ==
    (Ran(6) /\ AllDigits(inp.term)) =>
        /\ pc = "done"
        /\ SitesOf(sent) = <<"product_results", "order_results">>
        /\ NumberOf(sent[2].sql.arg) = DecimalNumber(inp.term)

\* C6: with every offered category selected and the aggregation answered, the
\* revenue of the Product Sales result adds up to the revenue of all order
\* lines (of products DIM_PRODUCT holds); with every offered tier selected
\* the Customer Insights result is the aggregate over all orders.
C6_SelectAllIsUnfiltered ==
    /\ (/\ Finished(2) /\ Len(calls) = 2 /\ ~AnyRaised(calls)
        /\ \A i \in Widgets("multiselect") : inp.selected = ui[i].options
        /\ \A l \in wh.lines : wh.products[l.product] # Absent)
       => SumSeq(ColumnList(calls[2].df, "REVENUE")) = SumSales(wh.lines)
    /\ (/\ Finished(3) /\ Len(calls) >= 2 /\ ~AnyRaised(calls)
        /\ \A i \in Widgets("multiselect") : inp.selected = ui[i].options)
       => calls[2].df = CustDataFrame(wh, Tiers \cup {NULL})

\* C7: the pivoted line chart of Store Performance has one series for each
\* selected store of DIM_STORE that has order lines, none for any other
\* store, and each series adds up to its store's sales.
C7_PivotMatchesSelection ==
    \A i \in Widgets("line_chart") :
        (tab = 1 /\ ui[i].of = "sales_data") =>
            /\ Range(ui[i].data.columns) =
                  {s \in Range(inp.selected) :
                      s \in wh.stores /\ \E l \in wh.lines : l.store = s}
            /\ \A s \in Range(ui[i].data.columns) :
                  SumSeq(ui[i].data.values[s]) = SumSales({l \in wh.lines : l.store = s})

\* C8: a filter-driven tab block that ran to its end has sent its
\* aggregation exactly when the selection is not empty, and shows a
\* placeholder and no chart or table when the selection is empty.
Aggregation == [t \in 1..4 |-> <<"sales_data", "prod_sales", "cust_data", "inv_data">>[t]]
SelectionEmpty == inp.selected = <<>> \/ inp.selected = NULL

C8_AggregationIffSelection ==
    \A t \in 1..4 :
        Finished(t) =>
            /\ (Aggregation[t] \in Range(SitesOf(sent))) <=> ~SelectionEmpty
            /\ SelectionEmpty =>
                  /\ Widgets("info") # {}
                  /\ Widgets("line_chart") \cup Widgets("bar_chart")
                        \cup Widgets("pyplot") \cup Widgets("dataframe") = {}

\* C9: every pass runs every tab block, and each tab block sends each
\* statement whose guard holds exactly once and no other, one statement per
\* run_query call whether it raised or not; a tab block starts with nothing
\* kept from before.
Expected(t) ==
    CASE t = 0 -> <<"total_sales", "total_orders", "active_customers", "sales_over_time">>
      [] t = 1 -> <<"stores_df">> \o (IF inp.selected # <<>> THEN <<"sales_data">> ELSE <<>>)
      [] t = 2 -> <<"categories_df">> \o (IF inp.selected # <<>> THEN <<"prod_sales">> ELSE <<>>)
      [] t = 3 -> <<"tiers_df">>
                    \o (IF inp.selected # <<>> THEN <<"cust_data">> ELSE <<>>)
                    \o (IF inp.selected # <<>> /\ Presentations("cust_data") # {}
                        THEN <<"loyalty_dist">> ELSE <<>>)
      [] t = 4 -> <<"inv_stores_df">>
                    \o (IF inp.selected \notin {NULL, <<>>} THEN <<"inv_data">> ELSE <<>>)
      [] t = 5 -> <<"promo_data">>
      [] t = 6 -> (IF inp.term # <<>> THEN <<"product_results">> ELSE <<>>)
                    \o (IF AllDigits(inp.term) THEN <<"order_results">> ELSE <<>>)

C9_EveryPassAsksAgain ==
    /\ SitesOf(sent) = SitesOf(calls)
    /\ \A i \in DOMAIN sent : sent[i].sql = calls[i].sql
    /\ pc = "body" => (ui = <<>> /\ calls = <<>> /\ sent = <<>>)
    /\ pc \in {"end", "done", "aborted"} => SitesOf(sent) = Expected(tab)
    /\ pc \in {"done", "aborted"} => \A t \in 0..6 : t \in rendered \/ t = tab

\* C10: the Overview block always shows three metric cards; each shows the
\* first value of its own result, and zero when its own statement raised,
\* whatever happened to the other two.
MetricCards == Restrict(ui, {ui[i] : i \in Widgets("metric")})

C10_MetricsIndependent ==
    Ran(0) =>
        /\ pc = "end"
        /\ Len(MetricCards) = 3
        /\ MetricCards[1].value =
              IF calls[1].resp.raised THEN <<"0", ".", "0", "0">>
              ELSE Format2f(calls[1].resp.df.rows[1]["TOTAL_SALES"])
        /\ MetricCards[2].value =
              IF calls[2].resp.raised THEN <<"0">>
              ELSE Str(calls[2].resp.df.rows[1]["TOTAL_ORDERS"])
        /\ MetricCards[3].value =
              IF calls[3].resp.raised THEN <<"0">>
              ELSE Str(calls[3].resp.df.rows[1]["ACTIVE_CUSTOMERS"])

C10_Witness ==
    /\ Finished(0)
    /\ calls[1].resp.raised /\ ~calls[2].resp.raised /\ ~calls[3].resp.raised
    /\ MetricCards[1].value = <<"0", ".", "0", "0">>
    /\ MetricCards[2].value = <<"1", "2", "0", "0">>
    /\ MetricCards[3].value = <<"1", "0">>


====
